---- MODULE Spec2Model ----
(***************************************************************************)
(* Eligibility tracker (src/App.tsx and its helpers).                      *)
(*                                                                         *)
(* Time is counted in whole hours since an arbitrary origin; a Date and    *)
(* its ISO string are both represented by that number, a null timestamp    *)
(* by Null.  The React component is modelled by its state variables, one   *)
(* action per event handler, timer callback or effect body.  State set by  *)
(* one handler is committed as one batch (React batches the setState calls *)
(* of a handler and renders once).  The scheduler effect of App.tsx:146    *)
(* is re-run by React after every render in which one of its dependencies  *)
(* changed; effectDue records that such a re-run is outstanding.  The      *)
(* timestamp of a history entry is written and never read by the program;  *)
(* the entries are modelled without it, their ids giving their order.      *)
(*                                                                         *)
(* Five specifications share the variables.  Spec is the running page:     *)
(* scheduler, clock and user handlers over the state in memory.  SpecLive  *)
(* is Spec with the scheduler kept running.  SpecHistory is                *)
(* addHistoryEntry applied again and again, far enough for the limit of    *)
(* the log to be reached.  SpecLoad is the construction of the page over   *)
(* stores written earlier (getInitialState with the locator token and the  *)
(* localStorage items as texts) and the first save.  SpecSave is the page  *)
(* opened over such stores and running with its persistence effect, whose  *)
(* writes may fail.                                                        *)
(***************************************************************************)
EXTENDS Integers, Sequences, FiniteSets, TLC

\* ---------------------------------------------------------------- bounds
MaxTime == 120
MaxIds == 2
MaxEntries == 3
MaxInserts == 103
MaxSaveFailures == 1

\* ------------------------------------------------------------- constants
ELIGIBILITY_HOURS == 72
INACTIVITY_DAYS == 3
WARNING_HOURS == 24
HISTORY_LIMIT == 100
HOURS_PER_DAY == 24

Null == -1

Eligible == "Eligible"
NotEligible == "Not Eligible"
Inactive == "Inactive"
Status == {Eligible, NotEligible, Inactive}

\* Amounts by which the clock is advanced between two events.
Steps == {24}

\* Names typed into the add-player dialog (sequences of characters).
NameInputs == {<<"a">>, <<" ", "A">>, <<"b">>}

\* Expiry values typed into the override dialog (Null: field left empty).
ExpiryInputs == {Null, 24}

VARIABLES
    now,                \* the clock (new Date()), in hours
    players,            \* useState<Player[]>
    historyLog,         \* useState<HistoryEntry[]>
    notifications,      \* useState<string[]>: the on-screen alert list
    notifiedPlayerIds,  \* useState(new Set<string>()): the dedup set
    showNotifications,  \* useState<boolean>
    permission,         \* Notification.permission
    confirmationState,  \* the staged confirmation with what its closure captured
    effectDue,          \* the scheduler effect has to (re-)run
    nextId,             \* next value of crypto.randomUUID() for a player
    nextEntry,          \* next value of crypto.randomUUID() for a history entry
    dispatched,         \* ids for which `new Notification` ran in the last step
    episodeSent,        \* per id: notifications dispatched since its alert
                        \* condition last was false
    addPlayerError,     \* useState(''): the error shown by the add dialog
    upToDate,           \* the scheduler body has run since the clock or the
                        \* permission last changed
    locationHash,       \* window.location.hash
    localStorage,       \* the items 'players' and 'historyLog' of localStorage
    initialState,       \* useState(getInitialState): what the page loaded
    savedDeps,          \* [players, historyLog] of the render after which the
                        \* persistence effect last ran (React keeps them to
                        \* decide whether the effect runs again)
    consoleErrors       \* calls of console.error by the persistence effect

vars == <<now, players, historyLog, notifications, notifiedPlayerIds,
          showNotifications, permission, confirmationState, effectDue,
          nextId, nextEntry, dispatched, episodeSent, addPlayerError,
          upToDate, locationHash, localStorage, initialState, savedDeps,
          consoleErrors>>

Ids == 1..MaxIds

\* ------------------------------------------------------------- helpers
Min(a, b) == IF a < b THEN a ELSE b

\* String.prototype.toLowerCase on the characters used here.
LowerChar(c) == IF c = "A" THEN "a" ELSE IF c = "B" THEN "b" ELSE c

toLowerCase(s) == [i \in DOMAIN s |-> LowerChar(s[i])]

\* String.prototype.trim: drop leading and trailing blanks.
RECURSIVE TrimLeft(_)
TrimLeft(s) ==
    IF s # <<>> /\ Head(s) = " " THEN TrimLeft(Tail(s)) ELSE s

RECURSIVE TrimRight(_)
TrimRight(s) ==
    IF s # <<>> /\ s[Len(s)] = " " THEN TrimRight(SubSeq(s, 1, Len(s) - 1)) ELSE s

\* Variant of trim: the string is kept as typed.
trimNone(s) == s

trim(s) == TrimRight(TrimLeft(s))


Present(x) == x # Null

\* ------------------------------------------------ transition evaluator
\* Variants of NewStatus with one slip each.
\* The decayed status is written as Eligible instead of Inactive.
NewStatusRevives(player, t) ==
    IF /\ player.status = Eligible
       /\ Present(player.eligibilityExpiresAt)
       /\ t > player.eligibilityExpiresAt
    THEN NotEligible
    ELSE IF player.status = NotEligible /\ Present(player.eligibilityExpiresAt)
         THEN IF t > player.eligibilityExpiresAt + INACTIVITY_DAYS * HOURS_PER_DAY
              THEN Eligible ELSE player.status
         ELSE player.status

\* The expiry is compared with >= instead of >.
NewStatusAtExpiry(player, t) ==
    IF /\ player.status = Eligible
       /\ Present(player.eligibilityExpiresAt)
       /\ t >= player.eligibilityExpiresAt
    THEN NotEligible
    ELSE IF player.status = NotEligible /\ Present(player.eligibilityExpiresAt)
         THEN IF t > player.eligibilityExpiresAt + INACTIVITY_DAYS * HOURS_PER_DAY
              THEN Inactive ELSE player.status
         ELSE player.status

\* INACTIVITY_DAYS is added to the expiry without converting it from days.
NewStatusWindowUnconverted(player, t) ==
    IF /\ player.status = Eligible
       /\ Present(player.eligibilityExpiresAt)
       /\ t > player.eligibilityExpiresAt
    THEN NotEligible
    ELSE IF player.status = NotEligible /\ Present(player.eligibilityExpiresAt)
         THEN IF t > player.eligibilityExpiresAt + INACTIVITY_DAYS
              THEN Inactive ELSE player.status
         ELSE player.status

\* The presence of the expiry is not tested for a NotEligible player.
NewStatusNoExpiryTest(player, t) ==
    IF /\ player.status = Eligible
       /\ Present(player.eligibilityExpiresAt)
       /\ t > player.eligibilityExpiresAt
    THEN NotEligible
    ELSE IF player.status = NotEligible
         THEN IF t > player.eligibilityExpiresAt + INACTIVITY_DAYS * HOURS_PER_DAY
              THEN Inactive ELSE player.status
         ELSE player.status

\* Variant of NewStatus: a NotEligible player is never made Inactive.
NewStatusNeverDecays(player, t) ==
    IF /\ player.status = Eligible
       /\ Present(player.eligibilityExpiresAt)
       /\ t > player.eligibilityExpiresAt
    THEN NotEligible
    ELSE player.status

\* The body of the map callback of updatePlayerStatus: one player's new status.
NewStatus(player, t) ==
    IF /\ player.status = Eligible
       /\ Present(player.eligibilityExpiresAt)
       /\ t > player.eligibilityExpiresAt
    THEN NotEligible
    ELSE IF player.status = NotEligible /\ Present(player.eligibilityExpiresAt)
         THEN LET expiryDate == player.eligibilityExpiresAt
                  inactiveDate == expiryDate + INACTIVITY_DAYS * HOURS_PER_DAY
              IN  IF t > inactiveDate THEN Inactive ELSE player.status
         ELSE player.status

\* Variant of UpdatedPlayers: a player whose status changes loses its expiry.
UpdatedPlayersDropExpiry(ps, t) ==
    [i \in DOMAIN ps |->
        IF NewStatus(ps[i], t) # ps[i].status
        THEN [ps[i] EXCEPT !.status = NewStatus(ps[i], t),
                           !.eligibilityExpiresAt = Null]
        ELSE ps[i]]

\* updatedPlayers of updatePlayerStatus, for the roster ps read at time t.
UpdatedPlayers(ps, t) ==
    [i \in DOMAIN ps |-> [ps[i] EXCEPT !.status = NewStatus(ps[i], t)]]

\* hasChanged of updatePlayerStatus.
HasChanged(ps, t) ==
    \E i \in DOMAIN ps : NewStatus(ps[i], t) # ps[i].status

\* ------------------------------------------------ notification tracker
NoMessage == <<>>

\* Variant of getNotificationMessage: the window excludes exactly 24 hours.
getNotificationMessageOpenWindow(player, t) ==
    IF player.status # Eligible \/ ~Present(player.eligibilityExpiresAt)
    THEN NoMessage
    ELSE LET diffHours == player.eligibilityExpiresAt - t
         IN  IF diffHours > 0 /\ diffHours < WARNING_HOURS
             THEN <<"Player">> \o player.name
             ELSE NoMessage

\* getNotificationMessage at time t: the alert text, or NoMessage for null.
getNotificationMessage(player, t) ==
    IF player.status # Eligible \/ ~Present(player.eligibilityExpiresAt)
    THEN NoMessage
    ELSE LET diffHours == player.eligibilityExpiresAt - t
         IN  IF diffHours > 0 /\ diffHours <= WARNING_HOURS
             THEN <<"Player">> \o player.name
             ELSE NoMessage

RECURSIVE NewNotifications(_, _)
\* newNotifications of generateNotifications: one message per alerting player.
NewNotifications(ps, t) ==
    IF ps = <<>> THEN <<>>
    ELSE LET msg == getNotificationMessage(Head(ps), t)
         IN  (IF msg # NoMessage THEN <<msg>> ELSE <<>>)
                 \o NewNotifications(Tail(ps), t)

\* Variant of Dispatches: the permission is not tested.
DispatchesUnpermitted(ps, t, perm, notified) ==
    {ps[i].id : i \in {j \in DOMAIN ps :
        /\ getNotificationMessage(ps[j], t) # NoMessage
        /\ ps[j].id \notin notified}}

\* Ids for which generateNotifications creates a Notification object.
Dispatches(ps, t, perm, notified) ==
    {ps[i].id : i \in {j \in DOMAIN ps :
        /\ getNotificationMessage(ps[j], t) # NoMessage
        /\ perm = "granted"
        /\ ps[j].id \notin notified}}

\* Ids that generateNotifications deletes from the dedup set.
Cleared(ps, t, notified) ==
    {ps[i].id : i \in {j \in DOMAIN ps :
        /\ getNotificationMessage(ps[j], t) = NoMessage
        /\ ps[j].id \in notified}}

\* ---------------------------------------------------------- persistence
\* A text (a JSON text, a locator fragment, a cache item) is a sequence of
\* characters.  A word the program never takes apart (a key, a status, an
\* action, the digits of an id or of a timestamp) counts as one character.
Quote == "\""
Backslash == "\\"

\* The characters an id or a timestamp can be written with.
Numerals == 0..(MaxTime + ELIGIBILITY_HOURS)

\* The string an id or an ISO timestamp is, and the number it stands for.
Numeral(n) == ToString(n)

IsNumeral(c) == \E n \in Numerals : Numeral(n) = c

FromNumeral(c) == CHOOSE n \in Numerals : Numeral(n) = c

\* JavaScript values as JSON knows them.
JsonUndefined == [kind |-> "undefined", val |-> <<>>]

JsonNull == [kind |-> "null", val |-> <<>>]

JsonString(chars) == [kind |-> "string", val |-> chars]

JsonArray(elements) == [kind |-> "array", val |-> elements]

\* An object: its members in insertion order.
JsonObject(members) == [kind |-> "object", val |-> members]

Member(key, value) == [key |-> <<key>>, value |-> value]

\* v[key] for a value that is not null or undefined.
RECURSIVE LastMember(_, _)
LastMember(members, key) ==
    IF members = <<>> THEN JsonUndefined
    ELSE IF members[Len(members)].key = <<key>>
         THEN members[Len(members)].value
         ELSE LastMember(SubSeq(members, 1, Len(members) - 1), key)

Get(v, key) == IF v.kind = "object" THEN LastMember(v.val, key) ELSE JsonUndefined

IsArray(v) == v.kind = "array"

\* The Player, HistoryEntry and state objects of types.ts as JSON values.
StampValue(x) == IF x = Null THEN JsonNull ELSE JsonString(<<Numeral(x)>>)

PlayerValue(p) ==
    JsonObject(<<Member("id", JsonString(<<Numeral(p.id)>>)),
                 Member("name", JsonString(p.name)),
                 Member("lastPlayed", StampValue(p.lastPlayed)),
                 Member("eligibilityExpiresAt", StampValue(p.eligibilityExpiresAt)),
                 Member("status", JsonString(<<p.status>>))>>)

EntryValue(e) ==
    JsonObject(<<Member("id", JsonString(<<Numeral(e.id)>>)),
                 Member("playerName", JsonString(e.playerName)),
                 Member("action", JsonString(<<e.action>>))>>)

PlayersValue(ps) == JsonArray([i \in DOMAIN ps |-> PlayerValue(ps[i])])

HistoryValue(log) == JsonArray([i \in DOMAIN log |-> EntryValue(log[i])])

StateValue(ps, log) ==
    JsonObject(<<Member("players", PlayersValue(ps)),
                 Member("historyLog", HistoryValue(log))>>)

\* Back from the JSON value to the record of the model.
FromStamp(v) == IF v.kind = "null" THEN Null ELSE FromNumeral(v.val[1])

FromPlayerValue(v) ==
    [id |-> FromNumeral(Get(v, "id").val[1]),
     name |-> Get(v, "name").val,
     lastPlayed |-> FromStamp(Get(v, "lastPlayed")),
     eligibilityExpiresAt |-> FromStamp(Get(v, "eligibilityExpiresAt")),
     status |-> Get(v, "status").val[1]]

FromEntryValue(v) ==
    [id |-> FromNumeral(Get(v, "id").val[1]),
     playerName |-> Get(v, "playerName").val,
     action |-> Get(v, "action").val[1]]

FromPlayersValue(v) == [i \in DOMAIN v.val |-> FromPlayerValue(v.val[i])]

FromHistoryValue(v) == [i \in DOMAIN v.val |-> FromEntryValue(v.val[i])]

\* JSON.stringify: quotes and backslashes inside a string are escaped.
RECURSIVE Escaped(_)
Escaped(chars) ==
    IF chars = <<>> THEN <<>>
    ELSE (IF Head(chars) = Quote \/ Head(chars) = Backslash
          THEN <<Backslash, Head(chars)>> ELSE <<Head(chars)>>)
         \o Escaped(Tail(chars))

RECURSIVE JSONstringify(_)
RECURSIVE StringifyElements(_)
RECURSIVE StringifyMembers(_)
JSONstringify(v) ==
    CASE v.kind = "null" -> <<"null">>
      [] v.kind = "string" -> <<Quote>> \o Escaped(v.val) \o <<Quote>>
      [] v.kind = "array" -> <<"[">> \o StringifyElements(v.val) \o <<"]">>
      [] v.kind = "object" -> <<"{">> \o StringifyMembers(v.val) \o <<"}">>

StringifyElements(elements) ==
    IF elements = <<>> THEN <<>>
    ELSE JSONstringify(Head(elements))
         \o (IF Len(elements) > 1
             THEN <<",">> \o StringifyElements(Tail(elements)) ELSE <<>>)

StringifyMembers(members) ==
    IF members = <<>> THEN <<>>
    ELSE <<Quote>> \o Escaped(Head(members).key) \o <<Quote, ":">>
         \o JSONstringify(Head(members).value)
         \o (IF Len(members) > 1
             THEN <<",">> \o StringifyMembers(Tail(members)) ELSE <<>>)

\* The outcome of a step that can throw: ok is FALSE when it threw.
Thrown == [ok |-> FALSE, val |-> <<>>, rest |-> <<>>]

Returned(val, rest) == [ok |-> TRUE, val |-> val, rest |-> rest]

\* JSON.parse, for texts without white space, numbers and booleans: the
\* value read from the front of the text and the text left behind it.
RECURSIVE ReadChars(_, _)
ReadChars(text, read) ==
    IF text = <<>> THEN Thrown
    ELSE IF Head(text) = Quote THEN Returned(read, Tail(text))
    ELSE IF Head(text) = Backslash
         THEN IF Len(text) < 2 THEN Thrown
              ELSE ReadChars(Tail(Tail(text)), Append(read, text[2]))
         ELSE ReadChars(Tail(text), Append(read, Head(text)))

ParseString(text) ==
    IF text # <<>> /\ Head(text) = Quote THEN ReadChars(Tail(text), <<>>)
    ELSE Thrown

RECURSIVE ParseValue(_)
RECURSIVE ParseElements(_, _)
RECURSIVE ParseMembers(_, _)
ParseValue(text) ==
    IF text = <<>> THEN Thrown
    ELSE CASE Head(text) = "null" -> Returned(JsonNull, Tail(text))
           [] Head(text) = Quote ->
                 LET s == ParseString(text)
                 IN  IF s.ok THEN Returned(JsonString(s.val), s.rest) ELSE Thrown
           [] Head(text) = "[" ->
                 IF Len(text) >= 2 /\ text[2] = "]"
                 THEN Returned(JsonArray(<<>>), Tail(Tail(text)))
                 ELSE ParseElements(Tail(text), <<>>)
           [] Head(text) = "{" ->
                 IF Len(text) >= 2 /\ text[2] = "}"
                 THEN Returned(JsonObject(<<>>), Tail(Tail(text)))
                 ELSE ParseMembers(Tail(text), <<>>)
           [] OTHER -> Thrown

ParseElements(text, read) ==
    LET v == ParseValue(text)
    IN  IF ~v.ok \/ v.rest = <<>> THEN Thrown
        ELSE IF Head(v.rest) = ","
             THEN ParseElements(Tail(v.rest), Append(read, v.val))
        ELSE IF Head(v.rest) = "]"
             THEN Returned(JsonArray(Append(read, v.val)), Tail(v.rest))
        ELSE Thrown

ParseMembers(text, read) ==
    LET k == ParseString(text)
    IN  IF ~k.ok \/ k.rest = <<>> \/ Head(k.rest) # ":" THEN Thrown
        ELSE LET v == ParseValue(Tail(k.rest))
                 members == Append(read, [key |-> k.val, value |-> v.val])
             IN  IF ~v.ok \/ v.rest = <<>> THEN Thrown
                 ELSE IF Head(v.rest) = ","
                      THEN ParseMembers(Tail(v.rest), members)
                 ELSE IF Head(v.rest) = "}"
                      THEN Returned(JsonObject(members), Tail(v.rest))
                 ELSE Thrown

JSONparse(text) ==
    LET v == ParseValue(text)
    IN  IF v.ok /\ v.rest = <<>> THEN Returned(v.val, <<>>) ELSE Thrown

\* unescape(encodeURIComponent(s)): the UTF-8 bytes of s, one character per
\* byte.  EAcute stands for a character outside ASCII, UpperByte and
\* LowerByte for the two bytes it is written with.
EAcute == "e-acute"
UpperByte == "0xC3"
LowerByte == "0xA9"

RECURSIVE Utf8Encode(_)
Utf8Encode(chars) ==
    IF chars = <<>> THEN <<>>
    ELSE IF Len(chars) = 1
         THEN IF Head(chars) = EAcute THEN <<UpperByte, LowerByte>> ELSE chars
         ELSE LET half == Len(chars) \div 2
              IN  Utf8Encode(SubSeq(chars, 1, half))
                     \o Utf8Encode(SubSeq(chars, half + 1, Len(chars)))

\* decodeURIComponent(escape(s)): throws on a malformed byte sequence.
NotLowerByte(c) == c # LowerByte

Utf8Decode(bytes) ==
    IF \A i \in DOMAIN bytes :
          /\ bytes[i] = UpperByte => i < Len(bytes) /\ bytes[i + 1] = LowerByte
          /\ bytes[i] = LowerByte => i > 1 /\ bytes[i - 1] = UpperByte
    THEN Returned(SelectSeq([i \in DOMAIN bytes |->
                                IF bytes[i] = UpperByte THEN EAcute ELSE bytes[i]],
                            NotLowerByte), <<>>)
    ELSE Thrown

\* Base64.  The Base64 text of a byte string is modelled as the byte string
\* with every byte written as two symbols, Base64Mark and the byte; atob
\* throws on a text that is not of that form.
Base64Mark == "b64"

btoa(bytes) ==
    [i \in 1..(2 * Len(bytes)) |->
        IF i % 2 = 1 THEN Base64Mark ELSE bytes[i \div 2]]

atob(base64) ==
    IF /\ Len(base64) % 2 = 0
       /\ \A i \in DOMAIN base64 : i % 2 = 1 => base64[i] = Base64Mark
    THEN Returned([i \in 1..(Len(base64) \div 2) |-> base64[2 * i]], <<>>)
    ELSE Thrown

\* encodeStateToHash (App.tsx:19-29); none of its steps throws on a state
\* of the model.
encodeStateToHash(state) == btoa(Utf8Encode(JSONstringify(state)))

HashMark == "#"

\* Variant of decodeStateFromHash: the leading '#' is not removed.
decodeStateFromHashKeepsMark(hash) ==
    IF hash = <<>> \/ Len(hash) < 2 THEN JsonNull
    ELSE LET bytes == atob(hash)
             jsonString == Utf8Decode(bytes.val)
             decoded == JSONparse(jsonString.val)
         IN  IF ~bytes.ok THEN JsonNull
             ELSE IF ~jsonString.ok THEN JsonNull
             ELSE IF ~decoded.ok THEN JsonNull
             ELSE IF decoded.val.kind = "null" THEN JsonNull
             ELSE IF /\ IsArray(Get(decoded.val, "players"))
                     /\ IsArray(Get(decoded.val, "historyLog"))
                  THEN decoded.val
                  ELSE JsonNull

\* decodeStateFromHash (App.tsx:31-46): the decoded value, or JsonNull for
\* its null.  Reading a property of null throws and is caught like the rest.
decodeStateFromHash(hash) ==
    IF hash = <<>> \/ Len(hash) < 2 THEN JsonNull
    ELSE LET base64 == Tail(hash)
             bytes == atob(base64)
             jsonString == Utf8Decode(bytes.val)
             decoded == JSONparse(jsonString.val)
         IN  IF ~bytes.ok THEN JsonNull
             ELSE IF ~jsonString.ok THEN JsonNull
             ELSE IF ~decoded.ok THEN JsonNull
             ELSE IF decoded.val.kind = "null" THEN JsonNull
             ELSE IF /\ IsArray(Get(decoded.val, "players"))
                     /\ IsArray(Get(decoded.val, "historyLog"))
                  THEN decoded.val
                  ELSE JsonNull

\* A cache item that is not there; getItem gives null for it, and the code
\* treats null and the empty string alike.
NoItem == <<>>

EmptyCache == [players |-> NoItem, historyLog |-> NoItem]

\* The localStorage branch of getInitialState (App.tsx:55-64).
FromLocalStorage(storage) ==
    LET savedPlayers == storage.players
        savedHistory == storage.historyLog
        parsedPlayers == JSONparse(savedPlayers)
        parsedHistory == JSONparse(savedHistory)
    IN  IF \/ savedPlayers # NoItem /\ ~parsedPlayers.ok
           \/ savedHistory # NoItem /\ ~parsedHistory.ok
        THEN [players |-> JsonArray(<<>>), historyLog |-> JsonArray(<<>>)]
        ELSE [players |-> IF savedPlayers # NoItem THEN parsedPlayers.val
                          ELSE JsonArray(<<>>),
              historyLog |-> IF savedHistory # NoItem THEN parsedHistory.val
                             ELSE JsonArray(<<>>)]

\* Variant of getInitialState: the cache is read first, the locator only
\* when the cache holds nothing.
getInitialStateCacheFirst(hash, storage) ==
    LET hashData == decodeStateFromHash(hash)
    IN  IF storage = EmptyCache /\ hashData # JsonNull
        THEN [players |-> Get(hashData, "players"),
              historyLog |-> Get(hashData, "historyLog")]
        ELSE FromLocalStorage(storage)

\* getInitialState (App.tsx:49-65).
getInitialState(hash, storage) ==
    LET hashData == decodeStateFromHash(hash)
    IN  IF hashData # JsonNull
        THEN [players |-> Get(hashData, "players"),
              historyLog |-> Get(hashData, "historyLog")]
        ELSE FromLocalStorage(storage)

\* What the persistence effect (App.tsx:165-186) leaves in localStorage.
SavedItems(ps, log) ==
    [players |-> JSONstringify(PlayersValue(ps)),
     historyLog |-> JSONstringify(HistoryValue(log))]

\* Variant of SavedHash: a locator that carries a token is left as it is.
SavedHashKeepsToken(hash, ps, log) ==
    LET newHash == encodeStateToHash(StateValue(ps, log))
        currentHash == IF hash = <<>> THEN <<>> ELSE Tail(hash)
    IN  IF (ps # <<>> \/ log # <<>>) /\ newHash # <<>> /\ currentHash = <<>>
        THEN <<HashMark>> \o newHash ELSE hash

\* What the persistence effect leaves in the locator.
SavedHash(hash, ps, log) ==
    LET newHash == encodeStateToHash(StateValue(ps, log))
        currentHash == IF hash = <<>> THEN <<>> ELSE Tail(hash)
    IN  IF ps # <<>> \/ log # <<>>
        THEN IF newHash # <<>> /\ newHash # currentHash
             THEN <<HashMark>> \o newHash ELSE hash
        ELSE IF currentHash # <<>> THEN <<>> ELSE hash

\* ------------------------------------------------------- initial state
NoConfirmation ==
    [isOpen |-> FALSE, kind |-> "none", playerId |-> 0,
     payload |-> [status |-> NotEligible, eligibilityExpiresAt |-> Null],
     players |-> <<>>]

\* The alert condition of a player record at time t.
AlertCondition(player, t) == getNotificationMessage(player, t) # NoMessage

\* Ids whose player is in the roster ps with the alert condition true at t.
Alerting(ps, t) ==
    {ps[i].id : i \in {j \in DOMAIN ps : AlertCondition(ps[j], t)}}

\* Bookkeeping of episodeSent over a step that ends in roster ps at time t
\* and in which Notification objects were created for the ids in sent.
EpisodeAfter(ps, t, sent) ==
    [id \in Ids |->
        IF id \notin Alerting(ps, t) THEN 0
        ELSE episodeSent[id] + (IF id \in sent THEN 1 ELSE 0)]

\* savedDeps before the persistence effect has run for the first time.
NeverRun == <<>>

\* State after the component is constructed with nothing stored: the
\* effects of the first render (App.tsx:146-154) have yet to run.
Init ==
    /\ now = 0
    /\ locationHash = <<>>
    /\ localStorage = EmptyCache
    /\ initialState = getInitialState(locationHash, localStorage)
    /\ players = FromPlayersValue(initialState.players)
    /\ historyLog = FromHistoryValue(initialState.historyLog)
    /\ notifications = <<>>
    /\ notifiedPlayerIds = {}
    /\ showNotifications = TRUE
    /\ permission = "default"
    /\ confirmationState = NoConfirmation
    /\ effectDue = TRUE
    /\ nextId = 1
    /\ nextEntry = 1
    /\ dispatched = {}
    /\ episodeSent = [id \in Ids |-> 0]
    /\ addPlayerError = ""
    /\ upToDate = FALSE
    /\ savedDeps = NeverRun
    /\ consoleErrors = 0

\* ------------------------------------------------------------ scheduler
\* updatePlayerStatus(); generateNotifications(); both closures read the
\* players, notifiedPlayerIds, notifications and showNotifications of the
\* render they were created in, which is the current state.
SchedulerBody ==
    LET changed == HasChanged(players, now)
        newNotifications ==
            IF showNotifications THEN NewNotifications(players, now) ELSE <<>>
        sent ==
            IF showNotifications
            THEN Dispatches(players, now, permission, notifiedPlayerIds) ELSE {}
        cleared ==
            IF showNotifications
            THEN Cleared(players, now, notifiedPlayerIds) ELSE {}
    IN  /\ players' = IF changed THEN UpdatedPlayers(players, now) ELSE players
        /\ notifications' = newNotifications
        /\ notifiedPlayerIds' = (notifiedPlayerIds \cup sent) \ cleared
        /\ dispatched' = sent
        /\ episodeSent' = EpisodeAfter(players', now, sent)
        /\ effectDue' = \/ changed
                        \/ sent # {}
                        \/ cleared # {}
                        \/ Len(newNotifications) # Len(notifications)
        /\ upToDate' = TRUE
        /\ UNCHANGED <<now, historyLog, showNotifications, permission,
                       confirmationState, nextId, nextEntry, addPlayerError,
                       initialState>>

\* Variant of SchedulerFire: the timer callback waits while a confirmation
\* is pending.
SchedulerFireHeldByConfirmation ==
    /\ ~effectDue
    /\ ~confirmationState.isOpen
    /\ SchedulerBody
    /\ UNCHANGED <<locationHash, localStorage, savedDeps, consoleErrors>>

\* The setInterval callback (App.tsx:147-150).
SchedulerFire ==
    /\ ~effectDue
    /\ SchedulerBody
    /\ UNCHANGED <<locationHash, localStorage, savedDeps, consoleErrors>>

\* The effect body run after mount and after every render that changed
\* updatePlayerStatus or generateNotifications (App.tsx:151-152).
SchedulerEffect ==
    /\ effectDue
    /\ SchedulerBody
    /\ UNCHANGED <<locationHash, localStorage, savedDeps, consoleErrors>>

\* ---------------------------------------------------------- environment
\* Time passes between two events.
ClockAdvance ==
    /\ ~effectDue
    /\ \E d \in Steps :
          /\ now + d <= MaxTime
          /\ now' = now + d
    /\ dispatched' = {}
    /\ upToDate' = FALSE
    /\ episodeSent' = EpisodeAfter(players, now', {})
    /\ UNCHANGED <<players, historyLog, notifications, notifiedPlayerIds,
                   showNotifications, permission, confirmationState,
                   effectDue, nextId, nextEntry, addPlayerError,
                   locationHash, localStorage, initialState, savedDeps,
                   consoleErrors>>

\* The user answers the prompt of Notification.requestPermission()
\* (App.tsx:140-144).
PermissionChange ==
    /\ ~effectDue
    /\ permission = "default"
    /\ \E perm \in {"granted", "denied"} : permission' = perm
    /\ dispatched' = {}
    /\ upToDate' = FALSE
    /\ UNCHANGED <<now, players, historyLog, notifications, notifiedPlayerIds,
                   showNotifications, confirmationState, effectDue, nextId,
                   nextEntry, episodeSent, addPlayerError, locationHash,
                   localStorage, initialState, savedDeps, consoleErrors>>

\* -------------------------------------------------------------- history
\* Variant of addHistoryEntry: the new log is not cut to the limit.
addHistoryEntryUncapped(prev, playerName, action) ==
    <<[id |-> nextEntry, playerName |-> playerName, action |-> action]>> \o prev

\* Variant of addHistoryEntry: the new entry is put at the end of the log.
addHistoryEntryAtEnd(prev, playerName, action) ==
    LET newEntry == [id |-> nextEntry, playerName |-> playerName,
                     action |-> action]
        all == prev \o <<newEntry>>
    IN  SubSeq(all, 1, Min(HISTORY_LIMIT, Len(all)))

\* The updater of addHistoryEntry applied to the log prev.
addHistoryEntry(prev, playerName, action) ==
    LET newEntry == [id |-> nextEntry, playerName |-> playerName,
                     action |-> action]
        all == <<newEntry>> \o prev
    IN  SubSeq(all, 1, Min(HISTORY_LIMIT, Len(all)))

\* players.find(p => p.id === playerId) finds a player.
Found(ps, playerId) == \E i \in DOMAIN ps : ps[i].id = playerId

PlayerById(ps, playerId) ==
    ps[CHOOSE i \in DOMAIN ps :
          ps[i].id = playerId /\ \A j \in 1..(i - 1) : ps[j].id # playerId]

\* The model follows at most MaxEntries operations that write the history:
\* one more is started only while nextEntry <= MaxEntries.
\* A dialog (confirmation or add-player with its error) covers the page:
\* the controls under it cannot be clicked (Modals.tsx:35-41).
PageFree == ~confirmationState.isOpen /\ addPlayerError = ""

\* What every user handler leaves alone.
HandlerFrame ==
    /\ dispatched' = {}
    /\ UNCHANGED <<now, notifications, notifiedPlayerIds, permission, upToDate,
                   locationHash, localStorage, initialState, savedDeps,
                   consoleErrors>>

\* ---------------------------------------------------------- mark played
\* handleMarkAsPlayed: stages the confirmation; the closure keeps the
\* players of the render in which the button was clicked.  The button is
\* disabled for an Eligible player (PlayerCard.tsx:67).
handleMarkAsPlayed ==
    /\ ~effectDue
    /\ PageFree
    /\ nextEntry <= MaxEntries
    /\ \E i \in DOMAIN players :
          /\ players[i].status # Eligible
          /\ confirmationState' =
                [isOpen |-> TRUE, kind |-> "mark", playerId |-> players[i].id,
                 payload |-> NoConfirmation.payload, players |-> players]
    /\ HandlerFrame
    /\ episodeSent' = EpisodeAfter(players, now, {})
    /\ UNCHANGED <<players, historyLog, showNotifications, effectDue, nextId,
                   nextEntry, addPlayerError>>

\* Variant of MarkedPlayer: the expiry is set to the time of play.
MarkedPlayerNoWindow(p, playerId, t) ==
    IF p.id = playerId
    THEN [p EXCEPT !.lastPlayed = t,
                   !.eligibilityExpiresAt = t,
                   !.status = Eligible]
    ELSE p

\* One player of the map in the onConfirm closure of handleMarkAsPlayed.
MarkedPlayer(p, playerId, t) ==
    IF p.id = playerId
    THEN [p EXCEPT !.lastPlayed = t,
                   !.eligibilityExpiresAt = t + ELIGIBILITY_HOURS,
                   !.status = Eligible]
    ELSE p

\* onConfirm of handleMarkAsPlayed (App.tsx:208-227).
ConfirmMarkAsPlayed ==
    /\ ~effectDue
    /\ confirmationState.isOpen
    /\ confirmationState.kind = "mark"
    /\ LET captured == confirmationState.players
           playerId == confirmationState.playerId
           updatedPlayers ==
               [i \in DOMAIN captured |-> MarkedPlayer(captured[i], playerId, now)]
       IN  /\ players' = updatedPlayers
           /\ IF Found(captured, playerId)
              THEN /\ historyLog' = addHistoryEntry(historyLog,
                          PlayerById(captured, playerId).name, "marked as played")
                   /\ nextEntry' = nextEntry + 1
              ELSE UNCHANGED <<historyLog, nextEntry>>
    /\ confirmationState' = NoConfirmation
    /\ effectDue' = TRUE
    /\ HandlerFrame
    /\ episodeSent' = EpisodeAfter(players', now, {})
    /\ UNCHANGED <<showNotifications, nextId, addPlayerError>>

\* ----------------------------------------------------------- add player
\* Variant of NameTaken: the names are compared as typed, case included.
NameTakenExact(ps, trimmedName) ==
    \E i \in DOMAIN ps : ps[i].name = trimmedName

\* Variant of NameTaken: names are not compared at all.
NameTakenNever(ps, trimmedName) == FALSE

NameTaken(ps, trimmedName) ==
    \E i \in DOMAIN ps : toLowerCase(ps[i].name) = toLowerCase(trimmedName)

DuplicateMessage == "Player with this name already exists."

\* A name is typed into the add dialog and submitted:
\* AddPlayerModal.handleSubmit, then handleAddPlayer.  A rejected name
\* leaves the dialog open with the error; typing again clears the error.
handleAddPlayer ==
    /\ ~effectDue
    /\ ~confirmationState.isOpen
    /\ \E name \in NameInputs :
          /\ trim(name) # <<>>
          /\ LET trimmedName == trim(trim(name))
             IN  IF NameTaken(players, trimmedName)
                 THEN /\ addPlayerError' = DuplicateMessage
                      /\ UNCHANGED <<players, historyLog, nextId, nextEntry,
                                     effectDue>>
                 ELSE /\ nextId <= MaxIds
                      /\ nextEntry <= MaxEntries
                      /\ players' = Append(players,
                            [id |-> nextId, name |-> trimmedName,
                             lastPlayed |-> Null, eligibilityExpiresAt |-> Null,
                             status |-> NotEligible])
                      /\ historyLog' = addHistoryEntry(historyLog, trimmedName,
                                                       "added to the tracker")
                      /\ nextId' = nextId + 1
                      /\ nextEntry' = nextEntry + 1
                      /\ addPlayerError' = ""
                      /\ effectDue' = TRUE
    /\ HandlerFrame
    /\ episodeSent' = EpisodeAfter(players', now, {})
    /\ UNCHANGED <<showNotifications, confirmationState>>

\* ------------------------------------------------------ bulk operations
\* Variant of handleResetAll: the reset is applied at once, with no
\* confirmation staged.
handleResetAllUnconfirmed ==
    /\ ~effectDue
    /\ PageFree
    /\ nextEntry <= MaxEntries
    /\ players' = <<>>
    /\ historyLog' = addHistoryEntry(<<>>, <<"Admin">>, "cleared all player data")
    /\ nextEntry' = nextEntry + 1
    /\ effectDue' = TRUE
    /\ HandlerFrame
    /\ episodeSent' = EpisodeAfter(players', now, {})
    /\ UNCHANGED <<showNotifications, nextId, addPlayerError, confirmationState>>

\* handleResetAll: stages the confirmation.
handleResetAll ==
    /\ ~effectDue
    /\ PageFree
    /\ nextEntry <= MaxEntries
    /\ confirmationState' = [NoConfirmation EXCEPT !.isOpen = TRUE, !.kind = "reset"]
    /\ HandlerFrame
    /\ UNCHANGED <<players, historyLog, showNotifications, effectDue, nextId,
                   nextEntry, episodeSent, addPlayerError>>

\* Variant of ConfirmResetAll: the reset entry is put in front of the old
\* log instead of the emptied one.
ConfirmResetAllKeepsLog ==
    /\ ~effectDue
    /\ confirmationState.isOpen
    /\ confirmationState.kind = "reset"
    /\ players' = <<>>
    /\ historyLog' = addHistoryEntry(historyLog, <<"Admin">>,
                                     "cleared all player data")
    /\ nextEntry' = nextEntry + 1
    /\ confirmationState' = NoConfirmation
    /\ effectDue' = TRUE
    /\ HandlerFrame
    /\ episodeSent' = EpisodeAfter(players', now, {})
    /\ UNCHANGED <<showNotifications, nextId, addPlayerError>>

\* Variant of ConfirmResetAll: only the roster is emptied.
ConfirmResetAllRosterOnly ==
    /\ ~effectDue
    /\ confirmationState.isOpen
    /\ confirmationState.kind = "reset"
    /\ players' = <<>>
    /\ confirmationState' = NoConfirmation
    /\ effectDue' = TRUE
    /\ HandlerFrame
    /\ episodeSent' = EpisodeAfter(players', now, {})
    /\ UNCHANGED <<historyLog, nextEntry, showNotifications, nextId,
                   addPlayerError>>

\* onConfirm of handleResetAll (App.tsx:248-253).
ConfirmResetAll ==
    /\ ~effectDue
    /\ confirmationState.isOpen
    /\ confirmationState.kind = "reset"
    /\ players' = <<>>
    /\ historyLog' = addHistoryEntry(<<>>, <<"Admin">>, "cleared all player data")
    /\ nextEntry' = nextEntry + 1
    /\ confirmationState' = NoConfirmation
    /\ effectDue' = TRUE
    /\ HandlerFrame
    /\ episodeSent' = EpisodeAfter(players', now, {})
    /\ UNCHANGED <<showNotifications, nextId, addPlayerError>>

\* handleCleanupInactive: stages the confirmation.
handleCleanupInactive ==
    /\ ~effectDue
    /\ PageFree
    /\ nextEntry <= MaxEntries
    /\ confirmationState' = [NoConfirmation EXCEPT !.isOpen = TRUE, !.kind = "cleanup"]
    /\ HandlerFrame
    /\ UNCHANGED <<players, historyLog, showNotifications, effectDue, nextId,
                   nextEntry, episodeSent, addPlayerError>>

\* Variant of NotInactive: only Eligible players are kept.
NotInactiveOnlyEligible(p) == p.status = Eligible

NotInactive(p) == p.status # Inactive

\* onConfirm of handleCleanupInactive (App.tsx:258-262).
ConfirmCleanupInactive ==
    /\ ~effectDue
    /\ confirmationState.isOpen
    /\ confirmationState.kind = "cleanup"
    /\ players' = SelectSeq(players, NotInactive)
    /\ historyLog' = addHistoryEntry(historyLog, <<"Admin">>,
                                     "cleaned up inactive players")
    /\ nextEntry' = nextEntry + 1
    /\ confirmationState' = NoConfirmation
    /\ effectDue' = TRUE
    /\ HandlerFrame
    /\ episodeSent' = EpisodeAfter(players', now, {})
    /\ UNCHANGED <<showNotifications, nextId, addPlayerError>>

\* ------------------------------------------------------ manual override
\* Variant of OverridePayload: the expiry typed is passed with any status.
OverridePayloadKeepsExpiry(status, expiry) ==
    [status |-> status,
     eligibilityExpiresAt |-> IF Present(expiry) THEN expiry ELSE Null]

\* The payload OverrideModal.handleSubmit passes to onSave: the expiry typed
\* into the dialog is kept only for status Eligible (Modals.tsx:189-192).
OverridePayload(status, expiry) ==
    [status |-> status,
     eligibilityExpiresAt |->
        IF status = Eligible /\ Present(expiry) THEN expiry ELSE Null]

OverrideAction(status) ==
    CASE status = Eligible -> "status manually set to Eligible"
      [] status = NotEligible -> "status manually set to Not Eligible"
      [] OTHER -> "status manually set to Inactive"

\* OverrideModal.handleSubmit, then handleSaveOverride: stages the
\* confirmation with the payload and the players of the current render.
handleSaveOverride ==
    /\ ~effectDue
    /\ PageFree
    /\ nextEntry <= MaxEntries
    /\ \E i \in DOMAIN players, status \in Status, expiry \in ExpiryInputs :
          confirmationState' =
              [isOpen |-> TRUE, kind |-> "override", playerId |-> players[i].id,
               payload |-> OverridePayload(status, expiry), players |-> players]
    /\ HandlerFrame
    /\ UNCHANGED <<players, historyLog, showNotifications, effectDue, nextId,
                   nextEntry, episodeSent, addPlayerError>>

\* Variant of OverriddenPlayer: every override stamps lastPlayed.
OverriddenPlayerStamped(p, playerId, payload, t) ==
    IF p.id = playerId
    THEN [p EXCEPT !.status = payload.status,
                   !.eligibilityExpiresAt = payload.eligibilityExpiresAt,
                   !.lastPlayed = t]
    ELSE p

\* One player of the map in the onConfirm closure of handleSaveOverride.
OverriddenPlayer(p, playerId, payload, t) ==
    IF p.id = playerId
    THEN [p EXCEPT !.status = payload.status,
                   !.eligibilityExpiresAt = payload.eligibilityExpiresAt,
                   !.lastPlayed =
                       IF payload.status = NotEligible THEN p.lastPlayed ELSE t]
    ELSE p

\* onConfirm of handleSaveOverride (App.tsx:278-297).
ConfirmOverride ==
    /\ ~effectDue
    /\ confirmationState.isOpen
    /\ confirmationState.kind = "override"
    /\ LET captured == confirmationState.players
           playerId == confirmationState.playerId
           payload == confirmationState.payload
       IN  /\ players' = [i \in DOMAIN captured |->
                            OverriddenPlayer(captured[i], playerId, payload, now)]
           /\ historyLog' = addHistoryEntry(historyLog,
                  IF Found(captured, playerId)
                  THEN PlayerById(captured, playerId).name ELSE <<>>,
                  OverrideAction(payload.status))
    /\ nextEntry' = nextEntry + 1
    /\ confirmationState' = NoConfirmation
    /\ effectDue' = TRUE
    /\ HandlerFrame
    /\ episodeSent' = EpisodeAfter(players', now, {})
    /\ UNCHANGED <<showNotifications, nextId, addPlayerError>>

\* --------------------------------------------------- other user events
\* onClose of the AddPlayerModal showing an error (App.tsx:336-339).
CloseAddPlayerModal ==
    /\ ~effectDue
    /\ addPlayerError # ""
    /\ addPlayerError' = ""
    /\ HandlerFrame
    /\ UNCHANGED <<players, historyLog, showNotifications, confirmationState,
                   effectDue, nextId, nextEntry, episodeSent>>

\* onClose of the ConfirmationModal (App.tsx:345): cancel, close or Escape.
\* The closure stays in confirmationState but can no longer be invoked.
CloseConfirmation ==
    /\ ~effectDue
    /\ confirmationState.isOpen
    /\ confirmationState' = NoConfirmation
    /\ HandlerFrame
    /\ UNCHANGED <<players, historyLog, showNotifications, effectDue, nextId,
                   nextEntry, episodeSent, addPlayerError>>

\* handleToggleNotifications (App.tsx:265).
handleToggleNotifications ==
    /\ ~effectDue
    /\ PageFree
    /\ showNotifications' = ~showNotifications
    /\ effectDue' = TRUE
    /\ HandlerFrame
    /\ UNCHANGED <<players, historyLog, confirmationState, nextId, nextEntry,
                   episodeSent, addPlayerError>>

\* -------------------------------------------------------- specification
Next ==
    \/ SchedulerFire
    \/ SchedulerEffect
    \/ ClockAdvance
    \/ PermissionChange
    \/ handleMarkAsPlayed
    \/ ConfirmMarkAsPlayed
    \/ handleAddPlayer
    \/ handleResetAll
    \/ ConfirmResetAll
    \/ handleCleanupInactive
    \/ ConfirmCleanupInactive
    \/ handleSaveOverride
    \/ ConfirmOverride
    \/ CloseConfirmation
    \/ CloseAddPlayerModal
    \/ handleToggleNotifications

Spec == Init /\ [][Next]_vars

\* -------------------------------------------------- the history log alone
\* addHistoryEntry applied over and over to the log of a fresh page, as any
\* handler that records an event does; everything else stays as it is.
InsertEntry ==
    /\ nextEntry <= MaxInserts
    /\ historyLog' = addHistoryEntry(historyLog, <<"Admin">>,
                                     "cleaned up inactive players")
    /\ nextEntry' = nextEntry + 1
    /\ UNCHANGED <<now, players, notifications, notifiedPlayerIds,
                   showNotifications, permission, confirmationState, effectDue,
                   nextId, dispatched, episodeSent, addPlayerError, upToDate,
                   locationHash, localStorage, initialState, savedDeps,
                   consoleErrors>>

NextHistory == InsertEntry

SpecHistory == Init /\ [][NextHistory]_vars


\* ------------------------------------------- construction from the stores
\* The page is constructed over stores left by an earlier page, by another
\* browser tab or by whoever wrote the locator; then it saves for the
\* first time.  Spec above follows the page in memory only: the stores are
\* written by the persistence effect and read by no handler, so every step
\* of Spec leaves locationHash and localStorage as construction found them.
SamplePlayer1 ==
    [id |-> 1, name |-> <<"a", EAcute, Quote>>, lastPlayed |-> Null,
     eligibilityExpiresAt |-> Null, status |-> NotEligible]

SamplePlayer2 ==
    [id |-> 2, name |-> <<"b">>, lastPlayed |-> 24,
     eligibilityExpiresAt |-> 24 + ELIGIBILITY_HOURS, status |-> Eligible]

SampleEntry1 ==
    [id |-> 1, playerName |-> <<"a", EAcute, Quote>>,
     action |-> "added to the tracker"]

SampleEntry2 ==
    [id |-> 2, playerName |-> <<"Admin">>,
     action |-> "cleaned up inactive players"]

\* RosterStates a store can have been written from.
RosterStates ==
    {[players |-> <<>>, historyLog |-> <<>>],
     [players |-> <<SamplePlayer1>>, historyLog |-> <<SampleEntry1>>],
     [players |-> <<SamplePlayer1, SamplePlayer2>>,
      historyLog |-> <<SampleEntry2, SampleEntry1>>]}

\* The locator fragment the persistence effect writes for a state.
HashOf(state) ==
    <<HashMark>> \o encodeStateToHash(StateValue(state.players, state.historyLog))

\* A text with its last n characters cut off.
Truncated(text, n) == SubSeq(text, 1, Len(text) - n)

\* Locator fragments the page is opened with: none, a bare '#', written
\* tokens, tokens cut short, and tokens of JSON values of another shape.
HashInputs ==
    {<<>>, <<HashMark>>}
       \cup {HashOf(state) : state \in RosterStates}
       \cup {Truncated(HashOf(state), n) :
                state \in {s \in RosterStates : s.players # <<>>}, n \in {1, 2}}
       \cup {<<HashMark>> \o btoa(<<UpperByte>>)}
       \cup {<<HashMark>> \o btoa(Utf8Encode(JSONstringify(v))) :
                v \in {JsonNull,
                       JsonObject(<<>>),
                       JsonObject(<<Member("players", JsonNull),
                                    Member("historyLog", JsonArray(<<>>))>>)}}

\* Cache items the page finds: none, written ones, one cut short, and the
\* texts of JSON values that are not arrays.
PlayersItems ==
    {NoItem, <<"null">>, <<"{", "}">>}
       \cup {SavedItems(state.players, state.historyLog).players :
                state \in RosterStates}
       \cup {Truncated(SavedItems(<<SamplePlayer1>>, <<>>).players, 1)}

HistoryItems ==
    {NoItem, <<"null">>}
       \cup {SavedItems(state.players, state.historyLog).historyLog :
                state \in RosterStates}
       \cup {Truncated(SavedItems(<<>>, <<SampleEntry1>>).historyLog, 1)}

\* initialState before the component function has run.
NotConstructed == [players |-> JsonUndefined, historyLog |-> JsonUndefined]

InitLoad ==
    /\ now = 0
    /\ locationHash \in HashInputs
    /\ localStorage \in [players : PlayersItems, historyLog : HistoryItems]
    /\ initialState = NotConstructed
    /\ players = <<>>
    /\ historyLog = <<>>
    /\ notifications = <<>>
    /\ notifiedPlayerIds = {}
    /\ showNotifications = TRUE
    /\ permission = "default"
    /\ confirmationState = NoConfirmation
    /\ effectDue = TRUE
    /\ nextId = 1
    /\ nextEntry = 1
    /\ dispatched = {}
    /\ episodeSent = [id \in Ids |-> 0]
    /\ addPlayerError = ""
    /\ upToDate = FALSE
    /\ savedDeps = NeverRun
    /\ consoleErrors = 0

\* The roster and the log the component starts with (App.tsx:70-71): what
\* was loaded, whatever it is.
StartPlayers(loaded) ==
    IF IsArray(loaded.players) THEN FromPlayersValue(loaded.players)
    ELSE loaded.players

StartHistory(loaded) ==
    IF IsArray(loaded.historyLog) THEN FromHistoryValue(loaded.historyLog)
    ELSE loaded.historyLog

\* The first run of the component function (App.tsx:67-71).
Mount ==
    /\ initialState = NotConstructed
    /\ initialState' = getInitialState(locationHash, localStorage)
    /\ players' = StartPlayers(initialState')
    /\ historyLog' = StartHistory(initialState')
    /\ UNCHANGED <<now, notifications, notifiedPlayerIds, showNotifications,
                   permission, confirmationState, effectDue, nextId, nextEntry,
                   dispatched, episodeSent, addPlayerError, upToDate,
                   locationHash, localStorage, savedDeps, consoleErrors>>

\* The persistence effect (App.tsx:165-186) after the first render; the
\* render itself needs players and historyLog to be arrays.
PersistenceEffect ==
    /\ initialState # NotConstructed
    /\ IsArray(initialState.players)
    /\ IsArray(initialState.historyLog)
    /\ localStorage' = SavedItems(players, historyLog)
    /\ locationHash' = SavedHash(locationHash, players, historyLog)
    /\ savedDeps' = <<players, historyLog>>
    /\ UNCHANGED <<now, players, historyLog, notifications, notifiedPlayerIds,
                   showNotifications, permission, confirmationState, effectDue,
                   nextId, nextEntry, dispatched, episodeSent, addPlayerError,
                   upToDate, initialState, consoleErrors>>

NextLoad == Mount \/ PersistenceEffect

SpecLoad == InitLoad /\ [][NextLoad]_vars
\* ------------------------------------------------ the page and its stores
\* The running page together with its persistence effect, opened over
\* stores that an earlier page has written.

\* How a run of the persistence effect (App.tsx:165-186) ends: "saved" when
\* the try block completes, otherwise the name of what the throwing call was
\* writing: setItem of 'players' (169), setItem of 'historyLog' (170), or
\* replaceState for the locator (177, 181).
SaveOutcomes == {"saved", "players", "historyLog", "locator"}

\* The localStorage items after a run that ends with outcome.
ItemsAfter(outcome, storage, ps, log) ==
    IF outcome = "players" THEN storage
    ELSE IF outcome = "historyLog"
         THEN [storage EXCEPT !.players = SavedItems(ps, log).players]
         ELSE SavedItems(ps, log)

\* The locator after a run that ends with outcome.
HashAfter(outcome, hash, ps, log) ==
    IF outcome = "saved" THEN SavedHash(hash, ps, log) ELSE hash

\* Variant of PersistenceRun: what is thrown is swallowed without a report.
PersistenceRunSilent ==
    \E outcome \in SaveOutcomes :
       /\ outcome = "locator"
             => SavedHash(locationHash, players, historyLog) # locationHash
       /\ localStorage' = ItemsAfter(outcome, localStorage, players, historyLog)
       /\ locationHash' = HashAfter(outcome, locationHash, players, historyLog)
       /\ consoleErrors' = consoleErrors
       /\ savedDeps' = <<players, historyLog>>

\* One run of the persistence effect for the players and historyLog of the
\* render; the catch block reports what was thrown with console.error.
\* replaceState can only throw where it is called.
PersistenceRun ==
    \E outcome \in SaveOutcomes :
       /\ outcome # "saved" => consoleErrors < MaxSaveFailures
       /\ outcome = "locator"
             => SavedHash(locationHash, players, historyLog) # locationHash
       /\ localStorage' = ItemsAfter(outcome, localStorage, players, historyLog)
       /\ locationHash' = HashAfter(outcome, locationHash, players, historyLog)
       /\ consoleErrors' =
             IF outcome = "saved" THEN consoleErrors ELSE consoleErrors + 1
       /\ savedDeps' = <<players, historyLog>>

\* The effects React runs after a render, before the next event: the
\* scheduler effect (App.tsx:146-154) and, when players or historyLog have
\* changed since its last run, the persistence effect (App.tsx:165-186).
\* Both read the state of the render; what the scheduler body sets is
\* committed after both have run.
RenderEffects ==
    /\ effectDue
    /\ SchedulerBody
    /\ IF <<players, historyLog>> # savedDeps
       THEN PersistenceRun
       ELSE UNCHANGED <<locationHash, localStorage, savedDeps, consoleErrors>>

\* The hour at which the page is opened: the one at which the stored
\* states were written.
OpenedAt == SamplePlayer2.lastPlayed

\* State after the component is constructed (App.tsx:49-71) over stores
\* written from one of RosterStates; the locator is the one the persistence
\* effect leaves or, also for the empty state, the token of the state.  Ids
\* handed out later are fresh.
InitSave ==
    /\ now = OpenedAt
    /\ \E state \in RosterStates :
          /\ localStorage = SavedItems(state.players, state.historyLog)
          /\ locationHash \in {SavedHash(<<>>, state.players, state.historyLog),
                               HashOf(state)}
    /\ initialState = getInitialState(locationHash, localStorage)
    /\ players = StartPlayers(initialState)
    /\ historyLog = StartHistory(initialState)
    /\ notifications = <<>>
    /\ notifiedPlayerIds = {}
    /\ showNotifications = TRUE
    /\ permission = "default"
    /\ confirmationState = NoConfirmation
    /\ effectDue = TRUE
    /\ nextId = Len(players) + 1
    /\ nextEntry = Len(historyLog) + 1
    /\ dispatched = {}
    /\ episodeSent = [id \in Ids |-> 0]
    /\ addPlayerError = ""
    /\ upToDate = FALSE
    /\ savedDeps = NeverRun
    /\ consoleErrors = 0

\* The events of the page; the permission prompt is left unanswered and the
\* notification switch untouched, neither of which the persistence effect
\* depends on.
NextSave ==
    \/ SchedulerFire
    \/ RenderEffects
    \/ ClockAdvance
    \/ handleMarkAsPlayed
    \/ ConfirmMarkAsPlayed
    \/ handleAddPlayer
    \/ handleResetAll
    \/ ConfirmResetAll
    \/ handleCleanupInactive
    \/ ConfirmCleanupInactive
    \/ handleSaveOverride
    \/ ConfirmOverride
    \/ CloseConfirmation
    \/ CloseAddPlayerModal

SpecSave == InitSave /\ [][NextSave]_vars

\* ------------------------------------------------------ fair scheduling
\* The running page with its timers kept alive: the interval timer of
\* App.tsx:147 fires again and again, and React runs the effect body of
\* App.tsx:151-152 after every render that changed one of its dependencies.
\* A scheduler run that would change the state is therefore not postponed
\* forever.  No other step is forced: the user and the clock may stop.
SpecLive == Spec /\ WF_vars(SchedulerFire \/ SchedulerEffect)

\* ================================================================ claims
\* A step that runs the scheduler body (evaluator, then notifier).
SchedulerRun == SchedulerFire \/ SchedulerEffect

\* The scheduler has run for the current clock, permission and roster.
Settled == upToDate /\ ~effectDue

InactivityWindowHours == INACTIVITY_DAYS * HOURS_PER_DAY

\* C1: the evaluator is idempotent: evaluating its own output again at the
\* same time changes nothing, for every roster and time the program reaches.
C1_Idempotent ==
    UpdatedPlayers(UpdatedPlayers(players, now), now) = UpdatedPlayers(players, now)

\* C2: a scheduler run never moves a status backward: a player that is not
\* Eligible does not become Eligible, and an Inactive player stays Inactive.
C2_Monotonic ==
    [][SchedulerRun =>
          \A i \in DOMAIN players :
             /\ Len(players') = Len(players)
             /\ players[i].status # Eligible => players'[i].status # Eligible
             /\ players[i].status = Inactive => players'[i].status = Inactive]_vars

\* An Inactive player made so by override, left Inactive by the runs since.
C2_Witness ==
    \E i \in DOMAIN players :
       /\ players[i].status = Inactive
       /\ Present(players[i].lastPlayed)
       /\ now > players[i].lastPlayed
       /\ Settled

\* C3: a run at time now turns an Eligible player with an expiry into
\* NotEligible exactly when now > expiry, and otherwise leaves it Eligible.
C3_EligibleExpires ==
    [][SchedulerRun =>
          \A i \in DOMAIN players :
             (players[i].status = Eligible /\ Present(players[i].eligibilityExpiresAt))
             => /\ (players'[i].status = NotEligible)
                       <=> (now > players[i].eligibilityExpiresAt)
                /\ (now <= players[i].eligibilityExpiresAt)
                       => players'[i].status = Eligible]_vars

\* A player the evaluator has just made NotEligible: past its expiry, still
\* within the inactivity window.
C3_Witness ==
    \E i \in DOMAIN players :
       /\ players[i].status = NotEligible
       /\ Present(players[i].eligibilityExpiresAt)
       /\ now > players[i].eligibilityExpiresAt
       /\ now <= players[i].eligibilityExpiresAt + InactivityWindowHours
       /\ Settled

C5_NoExpiryNoChange ==
    [][SchedulerRun =>
          \A i \in DOMAIN players :
             ~Present(players[i].eligibilityExpiresAt) => players'[i] = players[i]]_vars

\* Runs have left alone, after the windows would have elapsed, an Eligible
\* player without expiry (set by override) and a NotEligible one.
C5_Witness ==
    /\ Settled
    /\ now > InactivityWindowHours
    /\ \E i \in DOMAIN players :
          /\ players[i].status = Eligible
          /\ ~Present(players[i].eligibilityExpiresAt)
          /\ Present(players[i].lastPlayed)
          /\ now > players[i].lastPlayed + ELIGIBILITY_HOURS
    /\ \E i \in DOMAIN players :
          /\ players[i].status = NotEligible
          /\ ~Present(players[i].eligibilityExpiresAt)

\* The player record is Eligible with its expiry in (t, t + 24h].
InWarningWindow(player, t) ==
    /\ player.status = Eligible
    /\ Present(player.eligibilityExpiresAt)
    /\ player.eligibilityExpiresAt > t
    /\ player.eligibilityExpiresAt <= t + WARNING_HOURS

\* C6: with permission granted, the external notification of a player in
\* the warning window is dispatched exactly once while its alert condition
\* stays true: never twice, and once the notifier has run with notifications
\* enabled and permission granted it has been dispatched.
C6_ExactlyOnce ==
    \A i \in DOMAIN players :
       /\ episodeSent[players[i].id] <= 1
       /\ (/\ Settled
           /\ showNotifications
           /\ permission = "granted"
           /\ InWarningWindow(players[i], now))
          => episodeSent[players[i].id] = 1

\* C7: once the notifier has settled, every id in the dedup set belongs to a
\* player of the roster that is Eligible with its expiry in (now, now + 24h].
C7_DedupSetCurrent ==
    Settled =>
       \A id \in notifiedPlayerIds :
          \E i \in DOMAIN players :
             players[i].id = id /\ InWarningWindow(players[i], now)

\* The number of alerts in the list ns that name the player.
AlertsFor(ns, player) ==
    Cardinality({k \in DOMAIN ns : ns[k] = <<"Player">> \o player.name})

\* C8: after a notifier run with notifications enabled the alert list holds
\* exactly one alert for every player in the warning window and nothing else.
C8_AlertListLevel ==
    [][(SchedulerRun /\ showNotifications) =>
          /\ \A i \in DOMAIN players' :
                AlertsFor(notifications', players'[i]) =
                    IF InWarningWindow(players'[i], now') THEN 1 ELSE 0
          /\ Len(notifications') =
                Cardinality({i \in DOMAIN players' :
                                InWarningWindow(players'[i], now')})]_vars

\* One of two players alerts, exactly at the 24h edge of the window, although
\* its id is already in the dedup set.
C8_Witness ==
    /\ Settled
    /\ showNotifications
    /\ Len(players) > Len(notifications)
    /\ \E i \in DOMAIN players :
          /\ players[i].eligibilityExpiresAt = now + WARNING_HOURS
          /\ players[i].id \in notifiedPlayerIds
          /\ notifications = << <<"Player">> \o players[i].name >>

\* C9: a run without granted permission dispatches nothing, adds nothing to
\* the dedup set, and still lists an alert for every player in the window.
C9_PermissionDenied ==
    [][(SchedulerRun /\ permission # "granted") =>
          /\ dispatched' = {}
          /\ notifiedPlayerIds' \subseteq notifiedPlayerIds
          /\ showNotifications =>
                \A i \in DOMAIN players' :
                   InWarningWindow(players'[i], now')
                      <=> \E k \in DOMAIN notifications' :
                             notifications'[k] = <<"Player">> \o players'[i].name]_vars

\* Permission was denied; a player is in the window and shown on screen, no
\* notification went out and the dedup set is empty.
C9_Witness ==
    /\ Settled
    /\ permission = "denied"
    /\ showNotifications
    /\ notifiedPlayerIds = {}
    /\ dispatched = {}
    /\ \E i \in DOMAIN players :
          /\ InWarningWindow(players[i], now)
          /\ AlertsFor(notifications, players[i]) = 1

\* C10: confirming a staged mark-played sets the player's lastPlayed to now,
\* its expiry to now + 72h and its status to Eligible, and puts one new
\* history entry naming the player in front of the log.
C10_MarkPlayed ==
    [][ConfirmMarkAsPlayed =>
          /\ \E i \in DOMAIN players' :
                /\ players'[i].id = confirmationState.playerId
                /\ players'[i].lastPlayed = now
                /\ players'[i].eligibilityExpiresAt = now + ELIGIBILITY_HOURS
                /\ players'[i].status = Eligible
                /\ Head(historyLog').playerName = players'[i].name
          /\ Len(historyLog') = Len(historyLog) + 1
          /\ Tail(historyLog') = historyLog]_vars

\* A player just marked as played at a time after its creation.
C10_Witness ==
    /\ now > 0
    /\ historyLog # <<>>
    /\ Head(historyLog).action = "marked as played"
    /\ \E i \in DOMAIN players :
          /\ players[i].name = Head(historyLog).playerName
          /\ players[i].lastPlayed = now
          /\ players[i].eligibilityExpiresAt = now + ELIGIBILITY_HOURS
          /\ players[i].status = Eligible

\* A step that stages one of the four confirmed operations.
Staging ==
    handleMarkAsPlayed \/ handleSaveOverride \/ handleCleanupInactive
       \/ handleResetAll

\* C11: mark-played, override, cleanup and reset are two-phase: staging one
\* changes neither the roster nor the history, and closing or cancelling the
\* pending confirmation leaves both exactly as they were, so only a confirm
\* step applies the effect.
C11_TwoPhase ==
    [][(Staging \/ CloseConfirmation) =>
          /\ players' = players
          /\ historyLog' = historyLog
          /\ nextEntry' = nextEntry]_vars

\* A reset is staged and pending; the roster and the history are still there.
C11_Witness ==
    /\ confirmationState.isOpen
    /\ confirmationState.kind = "reset"
    /\ Len(players) = 2
    /\ Len(historyLog) = 2

C13_DuplicateRejected ==
    [][handleAddPlayer =>
          IF Len(players') > Len(players)
          THEN \A i \in DOMAIN players :
                  toLowerCase(players[i].name)
                     # toLowerCase(players'[Len(players')].name)
          ELSE /\ addPlayerError' # ""
               /\ players' = players
               /\ historyLog' = historyLog]_vars

\* A duplicate was just rejected: the error is shown, and the roster holds
\* one player with one history entry.
C13_Witness ==
    /\ addPlayerError = DuplicateMessage
    /\ Len(players) = 1
    /\ Len(historyLog) = 1
    /\ nextId = 2

\* A string of k blanks.
Blanks(k) == [i \in 1..k |-> " "]

\* s is the string typed with the blanks at both ends removed.
IsTrimOf(s, typed) ==
    /\ s # <<>>
    /\ Head(s) # " "
    /\ s[Len(s)] # " "
    /\ \E a, b \in 0..Len(typed) : typed = Blanks(a) \o s \o Blanks(b)

\* C14: a successful add puts exactly one new player at the end of the
\* roster, with a fresh id, the trimmed name, status Not Eligible and no
\* lastPlayed or expiry, leaves the existing players as they were, and
\* puts one new history entry naming the player in front of the log.
C14_AddPlayer ==
    [][(handleAddPlayer /\ addPlayerError' = "") =>
          /\ Len(players') = Len(players) + 1
          /\ SubSeq(players', 1, Len(players)) = players
          /\ LET new == players'[Len(players')]
             IN  /\ \A i \in DOMAIN players : players[i].id # new.id
                 /\ \E typed \in NameInputs : IsTrimOf(new.name, typed)
                 /\ new.status = NotEligible
                 /\ new.lastPlayed = Null
                 /\ new.eligibilityExpiresAt = Null
                 /\ Head(historyLog').playerName = new.name
          /\ Len(historyLog') = Len(historyLog) + 1
          /\ Tail(historyLog') = historyLog]_vars

\* A second player, typed with a leading blank, was just added behind a
\* player who is Eligible.
C14_Witness ==
    /\ Len(players) = 2
    /\ players[1].status = Eligible
    /\ players[2].name = <<"A">>
    /\ players[2].id # players[1].id
    /\ players[2].status = NotEligible
    /\ players[2].lastPlayed = Null
    /\ players[2].eligibilityExpiresAt = Null
    /\ Head(historyLog).action = "added to the tracker"
    /\ Head(historyLog).playerName = players[2].name

\* The positions of the players of ps that are not Inactive.
Remaining(ps) == {i \in DOMAIN ps : ps[i].status # Inactive}

C16_ResetAll ==
    [][ConfirmResetAll =>
          /\ players' = <<>>
          /\ Len(historyLog') = 1
          /\ historyLog'[1].playerName = <<"Admin">>
          /\ historyLog'[1].action = "cleared all player data"
          /\ \A k \in DOMAIN historyLog : historyLog[k].id # historyLog'[1].id]_vars

\* Two players and their two entries were just wiped by a reset.
C16_Witness ==
    /\ players = <<>>
    /\ Len(historyLog) = 1
    /\ Head(historyLog).playerName = <<"Admin">>
    /\ Head(historyLog).action = "cleared all player data"
    /\ nextId = 3
    /\ nextEntry = 4

\* C17: the history log never holds more than 100 entries and is ordered
\* newest first; once more than 100 entries have been inserted it holds
\* exactly the 100 most recently inserted ones.
C17_BoundedHistory ==
    /\ Len(historyLog) <= HISTORY_LIMIT
    /\ \A k \in DOMAIN historyLog :
          /\ historyLog[k].id < nextEntry
          /\ k > 1 => historyLog[k].id < historyLog[k - 1].id
    /\ nextEntry - 1 > HISTORY_LIMIT =>
          /\ Len(historyLog) = HISTORY_LIMIT
          /\ \A k \in 1..HISTORY_LIMIT : historyLog[k].id = nextEntry - k

\* 102 entries were inserted: the log is full and the two oldest are gone.
C17_Witness ==
    /\ nextEntry = HISTORY_LIMIT + 3
    /\ Len(historyLog) = HISTORY_LIMIT
    /\ historyLog[HISTORY_LIMIT].id = 3

\* The component has been constructed.
Mounted == initialState # NotConstructed

\* C18: round trip: for every valid RosterState, decoding the token made by
\* encoding it gives back that state, the same players with the same fields
\* and the same history entries in the same order.  Stated of every locator
\* that carries the token of a RosterState.
C18_RoundTrip ==
    \A state \in RosterStates :
       locationHash = HashOf(state) =>
          LET decoded == decodeStateFromHash(locationHash)
          IN  /\ decoded = StateValue(state.players, state.historyLog)
              /\ FromPlayersValue(Get(decoded, "players")) = state.players
              /\ FromHistoryValue(Get(decoded, "historyLog")) = state.historyLog

\* The page was constructed from the token of a state with two players, one
\* of them with a name outside ASCII and a quote in it, and holds that state.
C18_Witness ==
    /\ Mounted
    /\ locationHash = HashOf([players |-> <<SamplePlayer1, SamplePlayer2>>,
                              historyLog |-> <<SampleEntry2, SampleEntry1>>])
    /\ players = <<SamplePlayer1, SamplePlayer2>>
    /\ historyLog = <<SampleEntry2, SampleEntry1>>

\* The locator carries nothing that decodes to a state.
NoValidToken == decodeStateFromHash(locationHash) = JsonNull

\* C19: on load a token that decodes to a valid RosterState wins: the loaded
\* state is the token's state whatever the local cache holds, and the cache
\* is what the page loads from only when there is no valid token.
C19_TokenWins ==
    Mounted =>
       /\ \A state \in RosterStates :
             locationHash = HashOf(state)
                => /\ initialState.players = PlayersValue(state.players)
                   /\ initialState.historyLog = HistoryValue(state.historyLog)
       /\ ~NoValidToken =>
             /\ initialState.players
                   = Get(decodeStateFromHash(locationHash), "players")
             /\ initialState.historyLog
                   = Get(decodeStateFromHash(locationHash), "historyLog")
       /\ NoValidToken => initialState = FromLocalStorage(localStorage)

\* The page was opened with the token of a one-player state over a cache
\* that holds two players, and has loaded the one player of the token.
C19_Witness ==
    /\ Mounted
    /\ locationHash = HashOf([players |-> <<SamplePlayer1>>,
                              historyLog |-> <<SampleEntry1>>])
    /\ localStorage.players
          = SavedItems(<<SamplePlayer1, SamplePlayer2>>, <<>>).players
    /\ players = <<SamplePlayer1>>
    /\ historyLog = <<SampleEntry1>>

\* A cache item that is there and is not the text of an array.
CorruptItem(item) ==
    /\ item # NoItem
    /\ ~JSONparse(item).ok \/ ~IsArray(JSONparse(item).val)

EmptyRosterState == [players |-> JsonArray(<<>>), historyLog |-> JsonArray(<<>>)]

\* C20: load always yields a well-formed RosterState: its players and its
\* history are sequences; and with no valid token and a cache that is
\* absent or corrupt in either part it yields the empty RosterState.
C20_LoadWellFormed ==
    Mounted =>
       /\ IsArray(initialState.players)
       /\ IsArray(initialState.historyLog)
       /\ (/\ NoValidToken
           /\ \/ localStorage = EmptyCache
              \/ CorruptItem(localStorage.players)
              \/ CorruptItem(localStorage.historyLog))
             => initialState = EmptyRosterState

\* Player id is Eligible with an expiry that the clock has passed.
Overdue(id) ==
    \E i \in DOMAIN players :
       /\ players[i].id = id
       /\ players[i].status = Eligible
       /\ Present(players[i].eligibilityExpiresAt)
       /\ now > players[i].eligibilityExpiresAt

\* Player id is not yet Inactive and has an expiry that the clock has passed
\* by more than the inactivity window.
Decayable(id) ==
    \E i \in DOMAIN players :
       /\ players[i].id = id
       /\ players[i].status # Inactive
       /\ Present(players[i].eligibilityExpiresAt)
       /\ now > players[i].eligibilityExpiresAt + InactivityWindowHours

\* C21: with the scheduler kept running, a player that is Eligible past its
\* expiry does not stay so: it becomes NotEligible, unless it is removed,
\* marked as played or overridden first; and a player whose expiry lies more
\* than the inactivity window back becomes Inactive, with the same proviso.
C21_Liveness ==
    \A id \in Ids :
       /\ Overdue(id) ~> ~Overdue(id)
       /\ Decayable(id) ~> ~Decayable(id)

\* A player the runs have taken from Eligible with an expiry to Inactive,
\* the clock having passed the expiry and the window after it.
C21_Witness ==
    \E i \in DOMAIN players :
       /\ players[i].status = Inactive
       /\ Present(players[i].lastPlayed)
       /\ players[i].lastPlayed < players[i].eligibilityExpiresAt
       /\ now > players[i].eligibilityExpiresAt + InactivityWindowHours
       /\ ~effectDue

\* C22: the scheduler body runs once at startup before anything else, and it
\* can always run again, whether or not a confirmation is pending; a run that
\* React owes (effectDue) is the next step, before any timer or user event;
\* and every run is one step in which the evaluator and then the notifier
\* have both acted on the roster of the render.
C22_Scheduler ==
    /\ (effectDue = TRUE /\ upToDate = FALSE)
    /\ [](ENABLED SchedulerRun)
    /\ [][effectDue => SchedulerEffect]_vars
    /\ [][SchedulerRun =>
             /\ upToDate'
             /\ \A i \in DOMAIN players :
                   /\ Len(players') = Len(players)
                   /\ players'[i].status = NewStatus(players[i], now)
             /\ showNotifications
                   => notifications' = NewNotifications(players, now)
             /\ ~showNotifications => notifications' = <<>>]_vars

\* The timer has fired while a confirmation was pending: a player that was
\* Eligible when the confirmation was staged has been made NotEligible.
C22_Witness ==
    /\ confirmationState.isOpen
    /\ upToDate
    /\ \E i \in DOMAIN players :
          /\ players[i].status = NotEligible
          /\ \E j \in DOMAIN confirmationState.players :
                /\ confirmationState.players[j].id = players[i].id
                /\ confirmationState.players[j].status = Eligible

\* A step in which the persistence effect runs.
PersistenceStep == RenderEffects /\ <<players, historyLog>> # savedDeps

\* C23: a run of the persistence effect that does not write the whole state
\* reports it with console.error, and whether it fails or not the roster and
\* the history in memory are what the render and the evaluator made them:
\* the mutation that led to the run is kept; and a run that completes after
\* an earlier failure writes the whole current state.
C23_WriteFailure ==
    [][PersistenceStep =>
          /\ historyLog' = historyLog
          /\ players' = IF HasChanged(players, now)
                        THEN UpdatedPlayers(players, now) ELSE players
          /\ savedDeps' = <<players, historyLog>>
          /\ \/ consoleErrors' = consoleErrors + 1
             \/ /\ consoleErrors' = consoleErrors
                /\ localStorage' = SavedItems(players, historyLog)
                /\ locationHash' = SavedHash(locationHash, players, historyLog)]_vars

\* A write has failed for the state the user's operation produced: the
\* error is reported, the stores lack the state, memory has it.
C23_Witness ==
    /\ consoleErrors > 0
    /\ ~effectDue
    /\ players # <<>>
    /\ savedDeps = <<players, historyLog>>
    /\ localStorage # SavedItems(players, historyLog)

\* A roster and a log as they would be half-way through Reset All: the
\* players removed, the log not yet replaced by the "Admin" entry.
HalfReset(ps, log) ==
    /\ ps = <<>>
    /\ log # <<>>
    /\ Head(log).playerName # <<"Admin">>

\* The render that follows a confirmed Cleanup Inactive, before any effect
\* has seen it: the newest entry is the cleanup entry and the persistence
\* effect has not run for this log.
JustCleaned ==
    /\ effectDue
    /\ savedDeps = NeverRun \/ savedDeps[2] # historyLog
    /\ historyLog # <<>>
    /\ Head(historyLog).action = "cleaned up inactive players"
    /\ Head(historyLog).id = nextEntry - 1

\* C24: Reset All and Cleanup Inactive are applied in one step in which no
\* scheduler run and no write to the stores takes place; the effects run
\* next.  No state has the roster emptied with the log not yet replaced or
\* the log emptied with the "Admin" entry not yet added, the first render
\* after a cleanup has no Inactive player left, and what the persistence
\* effect has seen and, when no write failed, stored is never such a state.
C24_BulkAtomic ==
    /\ [][(ConfirmResetAll \/ ConfirmCleanupInactive) =>
             /\ effectDue'
             /\ dispatched' = {}
             /\ UNCHANGED <<notifications, notifiedPlayerIds, locationHash,
                            localStorage, savedDeps, consoleErrors>>]_vars
    /\ [](~HalfReset(players, historyLog))
    /\ []((players = <<>> /\ historyLog = <<>>) => nextEntry = 1)
    /\ [](JustCleaned => \A i \in DOMAIN players : players[i].status # Inactive)
    /\ [](savedDeps # NeverRun =>
             /\ ~HalfReset(savedDeps[1], savedDeps[2])
             /\ consoleErrors = 0
                   => localStorage = SavedItems(savedDeps[1], savedDeps[2]))

\* A cleanup has just removed the Inactive player: the effects have yet to
\* run, and the stores still hold the roster with that player in it.
C24_Witness ==
    /\ JustCleaned
    /\ savedDeps # NeverRun
    /\ \E i \in DOMAIN savedDeps[1] : savedDeps[1][i].status = Inactive
    /\ Len(players) < Len(savedDeps[1])
    /\ localStorage = SavedItems(savedDeps[1], savedDeps[2])

\* A step that applies a mutating user operation: an add that is accepted
\* or one of the four confirmations.
Mutating ==
    \/ players' # players /\ handleAddPlayer
    \/ ConfirmMarkAsPlayed
    \/ ConfirmOverride
    \/ ConfirmCleanupInactive
    \/ ConfirmResetAll

\* C25: every applied mutating operation puts exactly one new entry at the
\* head of the log, in front of the unchanged old log (of the emptied log
\* for Reset All); no other step changes the log, so that entries are never
\* modified, dropped one by one or reordered.  The log stays below its
\* limit here; what the limit drops is the subject of C17.
C25_HistoryAppend ==
    /\ [][Mutating =>
             /\ historyLog' # <<>>
             /\ \A k \in DOMAIN historyLog :
                   historyLog[k].id # Head(historyLog').id
             /\ ConfirmResetAll => Tail(historyLog') = <<>>
             /\ ~ConfirmResetAll => Tail(historyLog') = historyLog]_vars
    /\ [][~Mutating => historyLog' = historyLog]_vars

\* Three operations of three kinds have each left their entry, newest first.
C25_Witness ==
    /\ Len(historyLog) = 3
    /\ historyLog[1].action = "marked as played"
    /\ historyLog[2].action = "status manually set to Not Eligible"
    /\ historyLog[3].action = "added to the tracker"
    /\ historyLog[1].id > historyLog[2].id
    /\ historyLog[2].id > historyLog[3].id

\* C26: in every state reached from the empty roster, no two players have
\* names that are equal when case is ignored, and no two have the same id.
C26_Unique ==
    \A i, j \in DOMAIN players :
       i # j => /\ toLowerCase(players[i].name) # toLowerCase(players[j].name)
                /\ players[i].id # players[j].id

\* Two players are in the roster and a third add, of a name that differs
\* from one of theirs in case only, has just been refused.
C26_Witness ==
    /\ Len(players) = 2
    /\ addPlayerError = DuplicateMessage
    /\ \E i \in DOMAIN players : players[i].name = <<"a">>

\* C27: confirming a staged mark-played or override leaves every player
\* other than the target with the status, lastPlayed and
\* eligibilityExpiresAt it had just before the confirmation, whatever the
\* scheduler did to it since the staging.
C27_OnlyTarget ==
    [][(ConfirmMarkAsPlayed \/ ConfirmOverride) =>
          \A i \in DOMAIN players :
             players[i].id # confirmationState.playerId
             => /\ i \in DOMAIN players'
                /\ players'[i].status = players[i].status
                /\ players'[i].lastPlayed = players[i].lastPlayed
                /\ players'[i].eligibilityExpiresAt =
                      players[i].eligibilityExpiresAt]_vars

\* C28: a scheduler run changes nothing of the roster but statuses: the
\* players stay the same in number and order with their id, name,
\* lastPlayed and eligibilityExpiresAt; the history log is not touched; the
\* roster is left as it is when no status changes; and with the
\* notifications switched off, when the evaluator is all that acts on the
\* players, the dedup set is left alone and nothing is dispatched.
C28_EvaluatorFrame ==
    [][SchedulerRun =>
          /\ Len(players') = Len(players)
          /\ \A i \in DOMAIN players :
                /\ players'[i].id = players[i].id
                /\ players'[i].name = players[i].name
                /\ players'[i].lastPlayed = players[i].lastPlayed
                /\ players'[i].eligibilityExpiresAt =
                      players[i].eligibilityExpiresAt
          /\ (\A i \in DOMAIN players : players'[i].status = players[i].status)
                => players' = players
          /\ historyLog' = historyLog
          /\ nextEntry' = nextEntry
          /\ ~showNotifications
                => notifiedPlayerIds' = notifiedPlayerIds /\ dispatched' = {}]_vars

\* Of two players a run has moved one to Inactive and left the other
\* alone, with the notifications switched off.
C28_Witness ==
    /\ ~showNotifications
    /\ upToDate
    /\ Len(players) = 2
    /\ \E i \in DOMAIN players :
          /\ players[i].status = Inactive
          /\ Present(players[i].eligibilityExpiresAt)
    /\ \E i \in DOMAIN players : ~Present(players[i].eligibilityExpiresAt)

\* The roster and the log as the JSON values a load returns for them.
Loaded(ps, log) == [players |-> PlayersValue(ps), historyLog |-> HistoryValue(log)]

\* C29: after a run of the persistence effect in which nothing was thrown,
\* the cache parses to exactly the players and historyLog of the render; the
\* locator decodes to exactly that state when one of them is not empty and
\* carries no token when both are empty; and a load from the stores returns
\* that state.  Once the effects have all run and no write has ever failed,
\* a load returns the state in memory.
C29_StoresAgree ==
    /\ [][(PersistenceStep /\ consoleErrors' = consoleErrors) =>
             LET loaded == getInitialState(locationHash', localStorage')
             IN  /\ FromLocalStorage(localStorage') = Loaded(players, historyLog)
                 /\ (players # <<>> \/ historyLog # <<>>)
                       => decodeStateFromHash(locationHash')
                             = StateValue(players, historyLog)
                 /\ (players = <<>> /\ historyLog = <<>>)
                       => Len(locationHash') <= 1
                 /\ loaded = Loaded(players, historyLog)
                 /\ FromPlayersValue(loaded.players) = players
                 /\ FromHistoryValue(loaded.historyLog) = historyLog]_vars
    /\ []((~effectDue /\ consoleErrors = 0)
             => getInitialState(locationHash, localStorage)
                   = Loaded(players, historyLog))

\* A mark-played on a roster of two has been saved: cache and locator hold
\* the state in memory.
C29_Witness ==
    /\ ~effectDue
    /\ consoleErrors = 0
    /\ Len(players) = 2
    /\ historyLog # <<>>
    /\ Head(historyLog).action = "marked as played"
    /\ localStorage = SavedItems(players, historyLog)
    /\ locationHash = HashOf([players |-> players, historyLog |-> historyLog])

\* C30: the override dialog passes an expiry only with status Eligible, so
\* a confirmed override to NotEligible or Inactive leaves its target with
\* that status and no expiry, and a scheduler run leaves a NotEligible
\* player that has no expiry NotEligible.
C30_OverrideNoExpiry ==
    /\ [][handleSaveOverride =>
             (confirmationState'.payload.status # Eligible
                 => ~Present(confirmationState'.payload.eligibilityExpiresAt))]_vars
    /\ [][(ConfirmOverride /\ confirmationState.payload.status # Eligible) =>
             \A i \in DOMAIN players' :
                players'[i].id = confirmationState.playerId
                => /\ players'[i].status = confirmationState.payload.status
                   /\ ~Present(players'[i].eligibilityExpiresAt)]_vars
    /\ [][SchedulerRun =>
             \A i \in DOMAIN players :
                (/\ players[i].status = NotEligible
                 /\ ~Present(players[i].eligibilityExpiresAt))
                => players'[i].status = NotEligible]_vars

\* A player overridden to Eligible with an expiry and then to NotEligible
\* is still NotEligible, without expiry, after the runs that followed the
\* end of what would have been its inactivity window.
C30_Witness ==
    /\ Settled
    /\ Len(historyLog) = 3
    /\ historyLog[1].action = "status manually set to Not Eligible"
    /\ historyLog[2].action = "status manually set to Eligible"
    /\ \E i \in DOMAIN players :
          /\ players[i].status = NotEligible
          /\ ~Present(players[i].eligibilityExpiresAt)
          /\ Present(players[i].lastPlayed)
    /\ \E expiry \in ExpiryInputs :
          Present(expiry) /\ now > expiry + InactivityWindowHours
====
